---- MODULE Spec2Model ----
(***************************************************************************)
(* TFTextTransformer (python/sparkdl/transformers/tf_text.py).             *)
(*                                                                         *)
(* A string is a sequence of one-character strings; a word (token) is a    *)
(* string; a vector is a sequence of numbers; Python dicts are functions   *)
(* whose domain is the set of keys; Python lists are sequences.  Floats    *)
(* are represented by integers (0 is 0.0).                                 *)
(***************************************************************************)
EXTENDS Integers, Sequences, FiniteSets, TLC

VARIABLES
    defaultParamMap,       \* Params._defaultParamMap of the transformer
    paramMap,              \* Params._paramMap of the transformer
    pc,                    \* position of the driver in __init__ / _transform
    dataset,               \* the rows (input column) handed to _transform
    vectorsDf,             \* word2vec.fit(...).getVectors(): word -> vector
    word_embedding,        \* the local dict word_embedding
    local_word_embedding,  \* the value of the broadcast variable
    not_array_2d,          \* the local flag not_array_2d
    returnType,            \* the declared return type of cwti_udf
    vocab_size,            \* lit(len(word_embedding))
    embedding_size,        \* lit(self.getEmbeddingSize())
    doc_martic,            \* per row: the evaluation of the output columns
    invocation,            \* the number of calls of _transform so far
    udf_self               \* the _paramMap of self pickled with cwti_udf

vars == <<defaultParamMap, paramMap, pc, dataset, vectorsDf, word_embedding,
          local_word_embedding, not_array_2d, returnType, vocab_size,
          embedding_size, doc_martic, invocation, udf_self>>

-----------------------------------------------------------------------------
(* Bounds of the model. *)

MaxSeqLen == 2        \* sequenceLength ranges over 0..MaxSeqLen
MaxEmbSize == 2       \* embeddingSize ranges over 1..MaxEmbSize
MaxDim == 4           \* a dimension of shape ranges over -1..MaxDim
MaxStrLen == 3        \* length of the strings given to the encoder
NumRows == 2          \* rows of a dataset given to _transform
MaxInvocations == 2   \* calls of _transform on one transformer

(* Program constants. *)

DefaultEmbeddingSize == 100
DefaultSequenceLength == 64

-----------------------------------------------------------------------------
(* Strings and words. *)

Chars == {" ", "u", "n", "k"}

UNK == <<"u", "n", "k">>

\* the words Word2Vec may have trained a vector for
Words == {<<"u">>, <<"n">>, UNK}

RECURSIVE StringsOver(_, _)
StringsOver(cs, n) ==
    IF n = 0 THEN {<<>>}
    ELSE LET shorter == StringsOver(cs, n - 1)
         IN  shorter \cup {Append(t, c) : t \in {x \in shorter : Len(x) = n - 1}, c \in cs}

Strings == StringsOver(Chars, MaxStrLen)

-----------------------------------------------------------------------------
(* Params: _setDefault, _set, getOrDefault. *)

SetItem(d, k, v) == [x \in (DOMAIN d) \cup {k} |-> IF x = k THEN v ELSE d[x]]

getOrDefault(pm, dm, p) == IF p \in DOMAIN pm THEN pm[p] ELSE dm[p]

getSequenceLength == getOrDefault(paramMap, defaultParamMap, "sequenceLength")
getEmbeddingSize == getOrDefault(paramMap, defaultParamMap, "embeddingSize")
getShape == getOrDefault(paramMap, defaultParamMap, "shape")

-----------------------------------------------------------------------------
(* numpy: zeros, array(...).reshape(shape).tolist() *)

np_zeros(n) == [j \in 1..n |-> 0]

RECURSIVE Prod(_)
Prod(dims) == IF dims = <<>> THEN 1 ELSE Head(dims) * Prod(Tail(dims))

\* the elements of np.array(matrix) in C (row-major) order
RECURSIVE Ravel(_)
Ravel(matrix) == IF matrix = <<>> THEN <<>> ELSE Head(matrix) \o Ravel(Tail(matrix))

NoShape == <<-1, -1>>

\* the shape reshape() produces for an array of `size` elements, NoShape when
\* it raises ValueError: at most one dimension may be -1 and is inferred
ResolveShape(shp, size) ==
    LET unknown == {i \in DOMAIN shp : shp[i] = -1}
        known == Prod([i \in DOMAIN shp |-> IF shp[i] = -1 THEN 1 ELSE shp[i]])
    IN  IF \E i \in DOMAIN shp : shp[i] < -1 THEN NoShape
        ELSE IF Cardinality(unknown) > 1 THEN NoShape
        ELSE IF Cardinality(unknown) = 1
             THEN IF known = 0 \/ size % known # 0 THEN NoShape
                  ELSE [i \in DOMAIN shp |-> IF shp[i] = -1 THEN size \div known ELSE shp[i]]
        ELSE IF known # size THEN NoShape
        ELSE shp

\* ndarray.tolist() of the flat elements viewed with dimensions dims
RECURSIVE ToList(_, _)
ToList(flat, dims) ==
    IF Len(dims) = 1 THEN flat
    ELSE LET inner == Prod(Tail(dims))
         IN  [i \in 1..Head(dims) |->
                 ToList(SubSeq(flat, (i - 1) * inner + 1, i * inner), Tail(dims))]

-----------------------------------------------------------------------------
(* convert_word_to_index *)

isspace(c) == c = " "

RECURSIVE SkipSpaces(_, _)
SkipSpaces(str, i) ==
    IF i <= Len(str) /\ isspace(str[i]) THEN SkipSpaces(str, i + 1) ELSE i

RECURSIVE SplitFrom(_, _, _)
SplitFrom(str, i, cur) ==
    IF i > Len(str) THEN <<cur>>
    ELSE IF isspace(str[i]) THEN <<cur>> \o SplitFrom(str, SkipSpaces(str, i), <<>>)
    ELSE SplitFrom(str, i + 1, Append(cur, str[i]))

\* re.split(r"\s+", s)
re_split(str) == SplitFrom(str, 1, <<>>)

\* the words the list comprehension keeps, with the "unk" fallback a
\* reader of the vocabulary builder would expect
FilterWordsUnkFallback(words, emb) ==
    [i \in DOMAIN words |-> IF words[i] \in DOMAIN emb THEN words[i] ELSE UNK]

\* [word for word in re.split(...) if word in local_word_embedding.value.keys()]
FilterWords(words, emb) == SelectSeq(words, LAMBDA w : w \in DOMAIN emb)

\* padding placed in front of the sequence
pad_sequences_front(sequences, maxlen, esize) ==
    IF Len(sequences) <= maxlen
    THEN [i \in 1..(maxlen - Len(sequences)) |-> np_zeros(esize)] \o sequences
    ELSE SubSeq(sequences, 1, maxlen)

_pad_sequences(sequences, maxlen, esize) ==
    IF Len(sequences) <= maxlen
    THEN sequences \o [i \in 1..(maxlen - Len(sequences)) |-> np_zeros(esize)]
    ELSE SubSeq(sequences, 1, maxlen)

\* the elements of the matrix in column-major order
RECURSIVE RavelColumns(_)
RavelColumns(matrix) ==
    IF matrix = <<>> \/ Head(matrix) = <<>> THEN <<>>
    ELSE [i \in DOMAIN matrix |-> Head(matrix[i])]
         \o RavelColumns([i \in DOMAIN matrix |-> Tail(matrix[i])])

\* the flat elements reshape reads from np.array(result)
Flat(matrix) == Ravel(matrix)

Pending == [state |-> "pending", keys |-> <<>>, new_q |-> <<>>, padded |-> <<>>,
            value |-> <<>>, ndim |-> 0, reshaped |-> FALSE, vocab_size |-> 0,
            embedding_size |-> 0]

\* one evaluation of the output columns of a row whose input column is s
convert_word_to_index(s, emb, maxlen, esize, shp, reshape) ==
    LET keys == FilterWords(re_split(s), emb)
        new_q == [i \in DOMAIN keys |-> emb[keys[i]]]
        result == _pad_sequences(new_q, maxlen, esize)
        flat == Flat(result)
        dims == ResolveShape(shp, Len(flat))
        base == [state |-> "ok", keys |-> keys, new_q |-> new_q, padded |-> result,
                 value |-> result, ndim |-> 2, reshaped |-> FALSE, vocab_size |-> 0,
                 embedding_size |-> 0]
    IN  IF ~reshape THEN base
        ELSE IF dims = NoShape
             THEN [base EXCEPT !.state = "ValueError", !.value = <<>>, !.ndim = 0,
                               !.reshaped = TRUE]
        ELSE [base EXCEPT !.value = ToList(flat, dims), !.ndim = Len(dims),
                          !.reshaped = TRUE]

-----------------------------------------------------------------------------
(* __init__, setParams, setShape *)

EmptyDict == [x \in {} |-> 0]

ParamNames == {"sequenceLength", "embeddingSize", "shape"}

Dims == -1..MaxDim

Shapes == {<<a>> : a \in Dims} \cup {<<a, b>> : a \in Dims, b \in Dims}
          \cup [1..3 -> {1, 2}]

\* the keyword arguments a caller may pass (self._input_kwargs)
Kwargs ==
    {[k \in ks |-> CASE k = "sequenceLength" -> sl
                     [] k = "embeddingSize" -> es
                     [] OTHER -> sh] :
        ks \in SUBSET ParamNames, sl \in 0..MaxSeqLen, es \in 1..MaxEmbSize,
        sh \in Shapes}

\* _set(**kwargs)
_set(pm, kwargs) ==
    [k \in (DOMAIN pm) \cup (DOMAIN kwargs) |->
        IF k \in DOMAIN kwargs THEN kwargs[k] ELSE pm[k]]

\* the three _setDefault calls of __init__, in the order of the source
ConstructorDefaults ==
    LET d1 == SetItem(EmptyDict, "embeddingSize", DefaultEmbeddingSize)
        d2 == SetItem(d1, "sequenceLength", DefaultSequenceLength)
    IN  SetItem(d2, "shape", << getOrDefault(EmptyDict, d2, "sequenceLength"),
                                getOrDefault(EmptyDict, d2, "embeddingSize") >>)

\* not_array_2d = len(shape) != 2 or shape[0] != sequenceLength
NotArray2d(shp, maxlen) == Len(shp) # 2 \/ shp[1] # maxlen

\* cwti_udf's declared type: array<array<float>>, or array<float> if not_array_2d
UdfReturnType(flag) == IF flag THEN "array<float>" ELSE "array<array<float>>"

\* the nesting depth of the declared type
TypeDepth(type) == IF type = "array<float>" THEN 1 ELSE 2

Locals == /\ dataset = <<>>
          /\ vectorsDf = EmptyDict
          /\ word_embedding = EmptyDict
          /\ local_word_embedding = EmptyDict
          /\ not_array_2d = FALSE
          /\ returnType = "none"
          /\ vocab_size = 0
          /\ embedding_size = 0
          /\ doc_martic = <<>>
          /\ invocation = 0
          /\ udf_self = EmptyDict

UnchangedLocals == UNCHANGED <<dataset, vectorsDf, word_embedding,
                               local_word_embedding, not_array_2d, returnType,
                               vocab_size, embedding_size, doc_martic, invocation, udf_self>>

InitCtor == /\ pc = "new"
            /\ defaultParamMap = EmptyDict
            /\ paramMap = EmptyDict
            /\ Locals

\* TFTextTransformer(**kwargs)
Construct(kwargs) ==
    /\ pc = "new"
    /\ defaultParamMap' = ConstructorDefaults
    /\ paramMap' = _set(EmptyDict, kwargs)
    /\ pc' = "constructed"
    /\ UnchangedLocals

\* the driver is not inside a call: the transformer exists and no call of
\* _transform is running
Idle == pc \in {"constructed", "returned", "failed"}

\* setParams(**kwargs): between calls, before or after any _transform; the
\* DataFrame an earlier _transform returned is not touched
setParams(kwargs) ==
    /\ Idle
    /\ paramMap' = _set(paramMap, kwargs)
    /\ UNCHANGED <<defaultParamMap, pc>>
    /\ UnchangedLocals

\* setShape(value): between calls, before or after any _transform
setShape(value) ==
    /\ Idle
    /\ paramMap' = _set(paramMap, SetItem(EmptyDict, "shape", value))
    /\ UNCHANGED <<defaultParamMap, pc>>
    /\ UnchangedLocals

NextCtor == \/ \E kwargs \in Kwargs : Construct(kwargs)
            \/ \E kwargs \in Kwargs : setParams(kwargs)
            \/ \E value \in Shapes : setShape(value)

SpecCtor == InitCtor /\ [][NextCtor]_vars

\* C9: a transformer constructed without a shape argument has, when the
\* constructor returns, the effective shape (effective sequenceLength,
\* effective embeddingSize), so that the encoder takes the no-reshape branch.
C9_DefaultShapeFollowsParams ==
    [][(pc = "new" /\ pc' = "constructed" /\ "shape" \notin DOMAIN paramMap')
          => /\ getShape' = <<getSequenceLength', getEmbeddingSize'>>
             /\ ~NotArray2d(getShape', getSequenceLength')]_vars

-----------------------------------------------------------------------------
(* _transform *)

\* the vectors Word2Vec may train for a word: vectors of length esize
TrainedVectors(esize) ==
    {np_zeros(esize), [j \in 1..esize |-> j], [j \in 1..esize |-> esize + 1 - j]}

\* the outcomes of word2vec.fit(...).getVectors(): the tokenizer and the
\* training are external, so any set of words with any vectors
Vocabs(words, esize) == UNION {[ws -> TrainedVectors(esize)] : ws \in SUBSET words}

\* an "unk" entry that keeps a trained vector
AddUnkEntryIfAbsent(emb, esize) ==
    IF UNK \in DOMAIN emb THEN emb ELSE SetItem(emb, UNK, np_zeros(esize))

\* the "unk" entry left out
SkipUnkEntry(emb, esize) == emb

\* word_embedding["unk"] = np.zeros(self.getEmbeddingSize()).tolist()
AddUnkEntry(emb, esize) == SetItem(emb, UNK, np_zeros(esize))

\* the vocabulary size counted before "unk" is added
VocabSizeTrained(emb) == Cardinality((DOMAIN emb) \ {UNK})

\* len(word_embedding)
VocabSize(emb) == Cardinality(DOMAIN emb)

\* the strings of the rows of the datasets given to _transform
RowStrings == {<<"u">>, <<"u", "n", "k", " ", "u">>}

\* the datasets given to _transform: rows of these strings, or rows that are
\* all the empty string
Datasets == [1..NumRows -> RowStrings] \cup {[r \in 1..NumRows |-> <<>>]}

RECURSIVE LcutFrom(_, _, _)
LcutFrom(str, i, cur) ==
    LET word == IF cur = <<>> THEN <<>> ELSE <<cur>>
    IN  IF i > Len(str) THEN word
        ELSE IF isspace(str[i]) THEN word \o <<<<str[i]>>>> \o LcutFrom(str, i + 1, <<>>)
        ELSE LcutFrom(str, i + 1, Append(cur, str[i]))

\* jieba.lcut(s) on text of latin letters and blanks: each run of letters is
\* a token and each blank is a token of its own; the empty string has none
lcut(str) == LcutFrom(str, 1, <<>>)

\* the words of the corpus word2vec.fit is given: every token of every row
Corpus(ds) == UNION {{lcut(ds[r])[i] : i \in DOMAIN lcut(ds[r])} : r \in DOMAIN ds}

\* the configurations of a constructed transformer used for _transform
Configs ==
    {[sequenceLength |-> sl, embeddingSize |-> es, shape |-> sh] :
        sl \in 0..MaxSeqLen, es \in 1..MaxEmbSize, sh \in Shapes}

\* the shapes set for a transformer that is given to _transform: the
\* (L, E) shape or the flat shape
PipelineShapes(sl, es) == {<<sl, es>>, <<sl * es>>}

\* a transformer constructed with the three params given
Init == /\ pc = "constructed"
        /\ defaultParamMap = ConstructorDefaults
        /\ \E c \in Configs :
              /\ c.shape \in PipelineShapes(c.sequenceLength, c.embeddingSize)
              /\ paramMap = c
        /\ Locals

\* the keyword arguments given to setParams between calls of _transform:
\* another embedding size, with the flat shape that goes with it
PipelineKwargs ==
    {[k \in {"embeddingSize", "shape"} |->
         IF k = "embeddingSize" THEN es ELSE <<getSequenceLength * es>>] :
        es \in 1..MaxEmbSize}

\* a call of _transform(dataset): a new frame, no local is bound yet. The
\* call has no precondition: it may follow an invocation whose rows were
\* never evaluated, or one whose fit raised. The caller goes on with the
\* DataFrame of the new invocation.
Transform(ds) ==
    /\ pc \in {"constructed", "returned", "failed"}
    /\ invocation < MaxInvocations
    /\ invocation' = invocation + 1
    /\ pc' = "start"
    /\ dataset' = ds
    /\ vectorsDf' = EmptyDict
    /\ word_embedding' = EmptyDict
    /\ local_word_embedding' = EmptyDict
    /\ not_array_2d' = FALSE
    /\ returnType' = "none"
    /\ vocab_size' = 0
    /\ embedding_size' = 0
    /\ doc_martic' = <<>>
    /\ udf_self' = EmptyDict
    /\ UNCHANGED <<defaultParamMap, paramMap>>

\* vectorsDf = word2vec.fit(dataset.select(lcut_udf(...))).getVectors():
\* with minCount=1 every token of the corpus gets a vector; the values of
\* the vectors are the outcome of the training
Fit ==
    /\ pc = "start"
    /\ Corpus(dataset) # {}
    /\ \E v \in [Corpus(dataset) -> TrainedVectors(getEmbeddingSize)] : vectorsDf' = v
    /\ pc' = "fitted"
    /\ UNCHANGED <<defaultParamMap, paramMap, dataset, word_embedding,
                   local_word_embedding, not_array_2d, returnType, vocab_size,
                   embedding_size, doc_martic, invocation, udf_self>>

\* word2vec.fit on a corpus with no token: Spark's Word2Vec requires a
\* vocabulary of size > 0 and raises; _transform ends with the exception
FitFails ==
    /\ pc = "start"
    /\ Corpus(dataset) = {}
    /\ pc' = "failed"
    /\ UNCHANGED <<defaultParamMap, paramMap, dataset, vectorsDf, word_embedding,
                   local_word_embedding, not_array_2d, returnType, vocab_size,
                   embedding_size, doc_martic, invocation, udf_self>>

\* word_embedding = dict(vectorsDf.rdd.map(...).collect())
Collect ==
    /\ pc = "fitted"
    /\ word_embedding' = vectorsDf
    /\ pc' = "collected"
    /\ UNCHANGED <<defaultParamMap, paramMap, dataset, vectorsDf,
                   local_word_embedding, not_array_2d, returnType, vocab_size,
                   embedding_size, doc_martic, invocation, udf_self>>

AddUnk ==
    /\ pc = "collected"
    /\ word_embedding' = AddUnkEntry(word_embedding, getEmbeddingSize)
    /\ pc' = "unk"
    /\ UNCHANGED <<defaultParamMap, paramMap, dataset, vectorsDf,
                   local_word_embedding, not_array_2d, returnType, vocab_size,
                   embedding_size, doc_martic, invocation, udf_self>>

\* local_word_embedding = sc.broadcast(word_embedding)
Broadcast ==
    /\ pc = "unk"
    /\ local_word_embedding' = word_embedding
    /\ pc' = "broadcast"
    /\ UNCHANGED <<defaultParamMap, paramMap, dataset, vectorsDf, word_embedding,
                   not_array_2d, returnType, vocab_size, embedding_size,
                   doc_martic, invocation, udf_self>>

\* not_array_2d, the udf and the three withColumn calls; the columns are
\* evaluated lazily, row by row, after _transform has returned. The udf is
\* pickled with the self its closure refers to when it is applied to the
\* input column, so the workers read the params as they are now.
Plan ==
    /\ pc = "broadcast"
    /\ not_array_2d' = NotArray2d(getShape, getSequenceLength)
    /\ returnType' = UdfReturnType(NotArray2d(getShape, getSequenceLength))
    /\ vocab_size' = VocabSize(word_embedding)
    /\ embedding_size' = getEmbeddingSize
    /\ doc_martic' = [r \in DOMAIN dataset |-> Pending]
    /\ udf_self' = paramMap
    /\ pc' = "returned"
    /\ UNCHANGED <<defaultParamMap, paramMap, dataset, vectorsDf, word_embedding,
                   local_word_embedding, invocation>>

\* a worker evaluates the output columns of row r
EncodeRow(r) ==
    /\ pc = "returned"
    /\ doc_martic[r].state = "pending"
    /\ LET row == convert_word_to_index(
                      dataset[r], local_word_embedding,
                      getOrDefault(udf_self, defaultParamMap, "sequenceLength"),
                      getOrDefault(udf_self, defaultParamMap, "embeddingSize"),
                      getOrDefault(udf_self, defaultParamMap, "shape"),
                      not_array_2d)
       IN  doc_martic' =
             [doc_martic EXCEPT ![r] =
                IF row.state = "ok"
                THEN [row EXCEPT !.vocab_size = vocab_size,
                                 !.embedding_size = embedding_size]
                ELSE row]
    /\ UNCHANGED <<defaultParamMap, paramMap, pc, dataset, vectorsDf,
                   word_embedding, local_word_embedding, not_array_2d, returnType,
                   vocab_size, embedding_size, invocation, udf_self>>

Next == \/ \E ds \in Datasets : Transform(ds)
        \/ Fit
        \/ FitFails
        \/ Collect
        \/ AddUnk
        \/ Broadcast
        \/ Plan
        \/ \E r \in DOMAIN dataset : EncodeRow(r)
        \/ \E kwargs \in PipelineKwargs : setParams(kwargs)
        \/ \E value \in PipelineShapes(getSequenceLength, getEmbeddingSize) :
              setShape(value)

Spec == Init /\ [][Next]_vars

\* the state in which _transform has returned for a transformer configured
\* with c, a trained vocabulary vdf and the rows ds
Returned(c, vdf, ds) ==
    /\ pc = "returned"
    /\ defaultParamMap = ConstructorDefaults
    /\ paramMap = c
    /\ dataset = ds
    /\ vectorsDf = vdf
    /\ word_embedding = AddUnkEntry(vdf, c.embeddingSize)
    /\ local_word_embedding = AddUnkEntry(vdf, c.embeddingSize)
    /\ not_array_2d = NotArray2d(c.shape, c.sequenceLength)
    /\ returnType = UdfReturnType(NotArray2d(c.shape, c.sequenceLength))
    /\ vocab_size = VocabSize(AddUnkEntry(vdf, c.embeddingSize))
    /\ embedding_size = c.embeddingSize
    /\ doc_martic = [r \in DOMAIN ds |-> Pending]
    /\ invocation = 1
    /\ udf_self = c

NextEncode == \E r \in DOMAIN dataset : EncodeRow(r)

\* the strings given to the encoder under every shape
ShapeStrings == {<<>>, <<"u">>, <<"u", " ", "n">>,
                 <<"n", " ", "u", "n", "k", " ", " ", "u">>}

\* the encoder on every short string and a few longer ones, under the
\* (L, E) and the flat shape
InitEnc ==
    \E c \in Configs, s \in Strings \cup ShapeStrings :
        /\ c.shape \in {<<c.sequenceLength, c.embeddingSize>>,
                        <<c.sequenceLength * c.embeddingSize>>}
        /\ \E vdf \in Vocabs(Words, c.embeddingSize) : Returned(c, vdf, <<s>>)

SpecEnc == InitEnc /\ [][NextEncode]_vars

InitShape ==
    \E c \in Configs, s \in ShapeStrings :
        \E vdf \in Vocabs({<<"u">>, <<"n">>}, c.embeddingSize) : Returned(c, vdf, <<s>>)

SpecShape == InitShape /\ [][NextEncode]_vars

-----------------------------------------------------------------------------
(* What the claims speak of. *)

L == getSequenceLength
E == getEmbeddingSize

Min(a, b) == IF a <= b THEN a ELSE b

Rows == DOMAIN doc_martic
Evaluated(r) == doc_martic[r].state # "pending"
Encoded(r) == doc_martic[r].state = "ok"

\* the whitespace-delimited tokens of str, as the pairs <<first, last>> of
\* the positions of a maximal run of non-whitespace characters
TokenSpans(str) ==
    {sp \in (1..Len(str)) \X (1..Len(str)) :
        /\ sp[1] <= sp[2]
        /\ \A k \in sp[1]..sp[2] : str[k] # " "
        /\ (sp[1] = 1 \/ str[sp[1] - 1] = " ")
        /\ (sp[2] = Len(str) \/ str[sp[2] + 1] = " ")}

\* the tokens of str that are among keys
KeySpans(str, keys) ==
    {sp \in TokenSpans(str) : SubSeq(str, sp[1], sp[2]) \in keys}

\* the i-th of them, in the order of the string
NthKey(str, keys, i) ==
    LET sp == CHOOSE q \in KeySpans(str, keys) :
                  Cardinality({o \in KeySpans(str, keys) : o[1] <= q[1]}) = i
    IN  SubSeq(str, sp[1], sp[2])

NumKeys(str, keys) == Cardinality(KeySpans(str, keys))

\* C1: before any reshape the sequence has exactly L entries: the vectors
\* of the tokens of s that are keys of the vocabulary, in order, cut to the
\* first L, then zero vectors of length E up to L.
C1_PaddedSequence ==
    \A r \in Rows : Evaluated(r) =>
        LET keys == DOMAIN local_word_embedding
            n == NumKeys(dataset[r], keys)
        IN  /\ Len(doc_martic[r].padded) = L
            /\ \A i \in 1..L :
                  doc_martic[r].padded[i] =
                     IF i <= Min(n, L)
                     THEN local_word_embedding[NthKey(dataset[r], keys, i)]
                     ELSE np_zeros(E)

\* a row with more looked-up vectors than L >= 1 was truncated to the
\* first L, which are not all the same
C1_Witness ==
    \E r \in Rows :
        /\ Evaluated(r)
        /\ L >= 2
        /\ NumKeys(dataset[r], DOMAIN local_word_embedding) > L
        /\ doc_martic[r].padded[1] # doc_martic[r].padded[2]
        /\ doc_martic[r].padded[1] # np_zeros(E)

\* the embedding size configured for the invocation: that of the
\* transformer while _transform runs, and the one _transform ran with once
\* it has returned (a setter may have changed the transformer since)
InvocationE ==
    IF pc = "returned" THEN getOrDefault(udf_self, defaultParamMap, "embeddingSize")
    ELSE E

\* C2: the broadcast vocabulary of an invocation contains "unk", mapped to
\* the zero vector of length E, the embedding size configured for the
\* invocation, whatever was trained.
C2_UnkIsZero ==
    pc \in {"broadcast", "returned"} =>
        /\ UNK \in DOMAIN local_word_embedding
        /\ Len(local_word_embedding[UNK]) = InvocationE
        /\ \A j \in 1..InvocationE : local_word_embedding[UNK][j] = 0

\* the corpus had the word "unk", trained to a vector that is not zero
C2_Witness ==
    /\ pc = "broadcast"
    /\ UNK \in DOMAIN vectorsDf
    /\ vectorsDf[UNK] # np_zeros(E)

\* C3 as stated: vocab_size of every row is the number of trained words
\* plus one.
C3_TrainedWordsPlusOne ==
    \A r \in Rows : Encoded(r) =>
        doc_martic[r].vocab_size = Cardinality(DOMAIN vectorsDf) + 1

\* C3 amended: vocab_size of every row is the number of trained words other
\* than "unk", plus one, and is the same for every row of the invocation.
C3_VocabSize ==
    /\ \A r \in Rows : Encoded(r) =>
          doc_martic[r].vocab_size = Cardinality((DOMAIN vectorsDf) \ {UNK}) + 1
    /\ \A r1, r2 \in Rows : (Encoded(r1) /\ Encoded(r2)) =>
          doc_martic[r1].vocab_size = doc_martic[r2].vocab_size

\* every row of an invocation is encoded, and "unk" was a trained word
C3_Witness ==
    /\ Cardinality(Rows) >= 2
    /\ \A r \in Rows : Encoded(r)
    /\ UNK \in DOMAIN vectorsDf
    /\ Cardinality(DOMAIN vectorsDf) >= 2

\* C4: the encoder reshapes exactly when the shape is not (L, E).
C4_ReshapeIffNotLE ==
    \A r \in Rows : Evaluated(r) =>
        (doc_martic[r].reshaped <=> getShape # <<L, E>>)

\* C5: a shape whose element count differs from L*E makes every row fail
\* in reshape (the element count of a shape without an inferred dimension).
C5_MismatchFails ==
    \A r \in Rows : Evaluated(r) =>
        (((\A i \in DOMAIN getShape : getShape[i] >= 0) /\ Prod(getShape) # L * E)
            => doc_martic[r].state = "ValueError")

\* C6 as stated: every vector of the output comes from a token that is a
\* trained word, and none from the key "unk".
C6_NeverUsesUnk ==
    \A r \in Rows : Evaluated(r) =>
        \A i \in DOMAIN doc_martic[r].keys :
            /\ doc_martic[r].keys[i] \in DOMAIN vectorsDf
            /\ doc_martic[r].keys[i] # UNK

\* C6 amended: the vectors of the output are those of the tokens that are
\* a trained word or the string "unk", in order: any other token is
\* dropped, not replaced by the "unk" vector, and a token "unk" is looked
\* up under the key "unk" and gives the zero vector.
C6_DropsUnlessKey ==
    \A r \in Rows : Evaluated(r) =>
        LET keys == (DOMAIN vectorsDf) \cup {UNK}
            n == NumKeys(dataset[r], keys)
        IN  /\ Len(doc_martic[r].keys) = n
            /\ Len(doc_martic[r].new_q) = n
            /\ \A i \in 1..n :
                  /\ doc_martic[r].keys[i] = NthKey(dataset[r], keys, i)
                  /\ doc_martic[r].new_q[i] =
                        IF doc_martic[r].keys[i] = UNK THEN np_zeros(E)
                        ELSE vectorsDf[doc_martic[r].keys[i]]

\* a row with a token that was dropped, a trained word that was looked up,
\* and a token "unk", not a trained word, that was looked up
C6_Witness ==
    \E r \in Rows :
        /\ Evaluated(r)
        /\ UNK \notin DOMAIN vectorsDf
        /\ \E i \in DOMAIN doc_martic[r].keys : doc_martic[r].keys[i] = UNK
        /\ \E i \in DOMAIN doc_martic[r].keys : doc_martic[r].keys[i] # UNK
        /\ \E sp \in TokenSpans(dataset[r]) :
              SubSeq(dataset[r], sp[1], sp[2]) \notin DOMAIN local_word_embedding

\* C7: under the flat shape (L*E,) the output is the L*E scalars of the
\* padded matrix in row-major order.
C7_FlatRowMajor ==
    \A r \in Rows : (Evaluated(r) /\ getShape = <<L * E>>) =>
        /\ doc_martic[r].state = "ok"
        /\ Len(doc_martic[r].value) = L * E
        /\ \A i \in 0..(L - 1) : \A j \in 0..(E - 1) :
              doc_martic[r].value[i * E + j + 1] = doc_martic[r].padded[i + 1][j + 1]

\* a flat output of a matrix with two different rows of two different
\* components
C7_Witness ==
    \E r \in Rows :
        /\ Encoded(r)
        /\ getShape = <<L * E>>
        /\ L >= 2 /\ E >= 2
        /\ doc_martic[r].padded[1] # doc_martic[r].padded[2]
        /\ doc_martic[r].padded[1][1] # doc_martic[r].padded[1][2]

\* in every state: rows are encoded only after _transform has returned,
\* the broadcast value is the dict with the trained vectors and "unk", and
\* nothing is broadcast before
C8_StateInv ==
    /\ (\E r \in Rows : Evaluated(r)) => pc = "returned"
    /\ pc \in {"broadcast", "returned"} =>
          /\ local_word_embedding = word_embedding
          /\ DOMAIN local_word_embedding = (DOMAIN vectorsDf) \cup {UNK}
          /\ \A w \in (DOMAIN vectorsDf) \ {UNK} :
                local_word_embedding[w] = vectorsDf[w]
    /\ pc \in {"start", "fitted", "collected", "unk", "failed"} =>
          local_word_embedding = EmptyDict

\* in every step: the vocabulary does not change once broadcast, a new
\* invocation starts with no vocabulary, and the collect takes this
\* invocation's trained vectors
C8_Step ==
    /\ (pc \in {"broadcast", "returned"} /\ pc' \in {"broadcast", "returned"})
          => /\ local_word_embedding' = local_word_embedding
             /\ word_embedding' = word_embedding
    /\ pc' = "start" => (word_embedding' = EmptyDict /\ Rows' = {})
    /\ (pc = "fitted" /\ pc' = "collected") => word_embedding' = vectorsDf

\* C8: within an invocation the vocabulary is written once, then only
\* read: it holds the trained vectors and "unk" when it is broadcast, no
\* row is encoded before the broadcast, no evaluation of a row (in any
\* order of the rows) changes it after the broadcast, and a new invocation
\* starts from no vocabulary and collects its own.
C8_WriteOnceThenRead == [](C8_StateInv) /\ [][C8_Step]_vars

\* every row of a second invocation has been encoded, after a setter
\* changed the params of the transformer
C8_Witness ==
    /\ invocation = 2
    /\ paramMap # udf_self
    /\ pc = "returned"
    /\ Cardinality(Rows) >= 2
    /\ \A r \in Rows : Encoded(r)
    /\ UNK \notin DOMAIN vectorsDf
    /\ vectorsDf # EmptyDict

\* C10: the nesting depth of the value a row's encoder returns is the
\* depth of the type declared for the output column (an empty list has
\* every depth): nested lists under array<array<float>>, which is declared
\* exactly when the no-reshape branch is taken, and a flat list under
\* array<float>.
C10_DepthMatchesType ==
    \A r \in Rows : (Encoded(r) /\ doc_martic[r].value # <<>>) =>
        /\ doc_martic[r].ndim = TypeDepth(returnType)
        /\ doc_martic[r].reshaped <=> returnType = "array<float>"

====
